---- MODULE Spec2Model ----
(***************************************************************************)
(* Model of database-structure-comparer:                                   *)
(*   get-current-schema.py      map_sql_type, split_sql_definitions,       *)
(*                              parse_structure                            *)
(*   generate-schema-updates.py normalize_type, compare_and_generate_sql,  *)
(*                              main                                       *)
(* Text is modelled as sequences of one-character strings; a raw SQL type  *)
(* is modelled by the two groups the code's regular expressions take from  *)
(* it (base word, parenthesised argument).                                 *)
(***************************************************************************)
EXTENDS Integers, Sequences, FiniteSets, TLC

VARIABLES
    \* split_sql_definitions (get-current-schema.py:58-100)
    definition_block, i, buffer, parens, in_quotes, quote_char, parts, splitPc,
    \* map_sql_type (get-current-schema.py:44-53) and the reverse mapping
    \* of compare_and_generate_sql (generate-schema-updates.py:66-73)
    sql_type, result, mysql_type, typePc,
    \* compare_and_generate_sql (generate-schema-updates.py:58-94)
    target_json, actual_fields, adds, modifies, drops, diffPc,
    \* main of generate-schema-updates.py (lines 96-145)
    database, actual_struct, expected_tables, table_i, files, mainPc,
    \* parse_structure (get-current-schema.py:198-247)
    sql_text, tables, sql_files, parsePc

splitVars == <<definition_block, i, buffer, parens, in_quotes, quote_char, parts, splitPc>>
typeVars == <<sql_type, result, mysql_type, typePc>>
diffVars == <<target_json, actual_fields, adds, modifies, drops, diffPc>>

mainVars == <<database, actual_struct, expected_tables, table_i, files, mainPc>>
parseVars == <<sql_text, tables, sql_files, parsePc>>

vars == <<splitVars, typeVars, diffVars, mainVars, parseVars>>

\* The components a specification does not run stay idle.
SplitIdle ==
    /\ definition_block = <<>> /\ i = 0 /\ buffer = <<>> /\ parens = 0
    /\ in_quotes = FALSE /\ quote_char = "" /\ parts = <<>> /\ splitPc = "idle"

TypeIdle ==
    /\ sql_type = [base |-> ""] /\ result = [type |-> "STRING"]
    /\ mysql_type = [base |-> "text"] /\ typePc = "idle"

DiffIdle ==
    /\ target_json = <<>> /\ actual_fields = <<>>
    /\ adds = <<>> /\ modifies = <<>> /\ drops = <<>> /\ diffPc = "idle"

MainIdle ==
    /\ database = <<>> /\ actual_struct = <<>> /\ expected_tables = <<>>
    /\ table_i = 0 /\ files = <<>> /\ mainPc = "idle"

ParseIdle ==
    /\ sql_text = <<>> /\ tables = <<>> /\ sql_files = {} /\ parsePc = "idle"

\* dict.get(key, default); a dict is a function on the keys it holds.
Get(d, key, default) == IF key \in DOMAIN d THEN d[key] ELSE default

(***************************************************************************)
(* split_sql_definitions                                                   *)
(***************************************************************************)

\* Longest definition block explored.
MaxLen == 5

\* The characters a block is built from: a letter, a blank, and every
\* character the splitter tests for.
Chars == {"a", " ", ",", "'", "\"", "(", ")"}

Blocks == UNION {[1..n -> Chars] : n \in 0..MaxLen}

\* `char in ("'", '"')`
QuoteChars == {"'", "\""}

\* str.strip() on the characters of the model: blanks leave both ends.
RECURSIVE LStrip(_)
LStrip(s) == IF s # <<>> /\ Head(s) = " " THEN LStrip(Tail(s)) ELSE s

RECURSIVE RStrip(_)
RStrip(s) ==
    IF s # <<>> /\ s[Len(s)] = " " THEN RStrip(SubSeq(s, 1, Len(s) - 1)) ELSE s

Strip(s) == RStrip(LStrip(s))

\* Mutant of IsEscapedQuote: no look-ahead, every matching quote ends the run.
NoEscapedQuote(block, k, qc) == FALSE

\* Line 76: the quote at 0-based index k is followed by the same quote.
IsEscapedQuote(block, k, qc) ==
    k + 1 < Len(block) /\ block[k + 2] = qc

\* Lines 70-81: the quote state after the character at 0-based index k.
\* esc says that the character and the next one form a doubled quote.
QuoteStep(block, k, inq, qc) ==
    LET char == block[k + 1] IN
    IF char \in QuoteChars
    THEN IF ~inq
         THEN [inq |-> TRUE, qc |-> char, esc |-> FALSE]
         ELSE IF qc = char
              THEN IF IsEscapedQuote(block, k, qc)
                   THEN [inq |-> inq, qc |-> qc, esc |-> TRUE]
                   ELSE [inq |-> FALSE, qc |-> "", esc |-> FALSE]
              ELSE [inq |-> inq, qc |-> qc, esc |-> FALSE]
    ELSE [inq |-> inq, qc |-> qc, esc |-> FALSE]

\* Lines 83-87: the parenthesis counter after the character.
ParenStep(char, inq, par) ==
    IF ~inq
    THEN IF char = "(" THEN par + 1
         ELSE IF char = ")" THEN par - 1
         ELSE par
    ELSE par

\* Mutant of IsSplitPoint: the parenthesis depth is not consulted.
IsSplitPointAnyDepth(char, inq, par) ==
    ~inq /\ char = ","

\* Line 88 under line 83: the character ends a definition.
IsSplitPoint(char, inq, par) ==
    ~inq /\ char = "," /\ par = 0

SplitInit ==
    /\ definition_block \in Blocks
    /\ i = 0
    /\ buffer = <<>>
    /\ parens = 0
    /\ in_quotes = FALSE
    /\ quote_char = ""
    /\ parts = <<>>
    /\ splitPc = "loop"
    /\ TypeIdle /\ DiffIdle /\ MainIdle /\ ParseIdle

\* One iteration of the while loop, lines 66-95.
SplitStep ==
    /\ splitPc = "loop"
    /\ i < Len(definition_block)
    /\ LET char == definition_block[i + 1]
           q == QuoteStep(definition_block, i, in_quotes, quote_char)
           buffer1 == IF q.esc THEN Append(buffer, char) ELSE buffer
           i1 == IF q.esc THEN i + 1 ELSE i
           parens1 == ParenStep(char, q.inq, parens)
       IN /\ in_quotes' = q.inq
          /\ quote_char' = q.qc
          /\ parens' = parens1
          /\ IF IsSplitPoint(char, q.inq, parens1)
             THEN /\ parts' = Append(parts, Strip(buffer1))
                  /\ buffer' = <<>>
             ELSE /\ parts' = parts
                  /\ buffer' = Append(buffer1, char)
          /\ i' = i1 + 1
    /\ UNCHANGED <<definition_block, splitPc>>
    /\ UNCHANGED <<typeVars, diffVars, mainVars, parseVars>>

\* Lines 97-100: the trailing buffer, and the return.
SplitReturn ==
    /\ splitPc = "loop"
    /\ i >= Len(definition_block)
    /\ parts' = IF Strip(buffer) # <<>> THEN Append(parts, Strip(buffer)) ELSE parts
    /\ splitPc' = "done"
    /\ UNCHANGED <<definition_block, i, buffer, parens, in_quotes, quote_char>>
    /\ UNCHANGED <<typeVars, diffVars, mainVars, parseVars>>

SplitNext == SplitStep \/ SplitReturn

SpecSplit == SplitInit /\ [][SplitNext]_vars

(***************************************************************************)
(* Type mapping                                                            *)
(* A raw SQL type is a dict with the parts the code's patterns see:        *)
(*   base   the leading word ("" when the text starts with no word),       *)
(*   arg    N, held when the base is followed by "(N)", N digits,          *)
(*   args   held when the base is followed by a parenthesis of anything    *)
(*          else, as in decimal(10,2),                                     *)
(*   rest   text after the type, as in "int unsigned".                     *)
(***************************************************************************)

\* Largest length or numeric type argument explored.
MaxLength == 2

\* get-current-schema.py:31-41
TYPE_MAP ==
    [varchar |-> "STRING", char |-> "STRING", int |-> "INTEGER",
     bigint |-> "INTEGER", datetime |-> "DATETIME", timestamp |-> "DATETIME",
     text |-> "STRING", tinyint |-> "INTEGER", boolean |-> "BOOLEAN"]

\* str.lower() on the words of the model.
Lower(w) ==
    CASE w = "VARCHAR" -> "varchar"
      [] w = "INT" -> "int"
      [] w = "STRING" -> "string"
      [] OTHER -> w

\* str.upper() on the words of the model.
Upper(w) ==
    CASE w = "string" -> "STRING"
      [] w = "integer" -> "INTEGER"
      [] OTHER -> w

\* Mutant of WithLength: the length is kept for STRING results only.
WithLengthStringOnly(res, raw) ==
    IF "arg" \in DOMAIN raw /\ res.type = "STRING"
    THEN res @@ [length |-> raw.arg] ELSE res

\* Mutant of WithLength: the length is never recorded.
WithoutLength(res, raw) == res

\* Lines 51-52 of map_sql_type: the length is recorded whenever the pattern
\* captured digits, whatever the base mapped to.
WithLength(res, raw) ==
    IF "arg" \in DOMAIN raw THEN res @@ [length |-> raw.arg] ELSE res

\* map_sql_type, get-current-schema.py:44-53.
map_sql_type(raw) ==
    IF raw.base = ""
    THEN [type |-> "STRING"]
    ELSE WithLength([type |-> Get(TYPE_MAP, Lower(raw.base), "STRING")], raw)

\* `if length` at generate-schema-updates.py:69: None and 0 are false.
HasLength(spec) == "length" \in DOMAIN spec /\ spec.length # 0

\* The reverse mapping, generate-schema-updates.py:66-73.
MysqlType(spec) ==
    LET col_type == Upper(spec.type) IN
    CASE col_type = "STRING" ->
             IF HasLength(spec) THEN [base |-> "varchar", arg |-> spec.length]
             ELSE [base |-> "text"]
      [] col_type = "INTEGER" -> [base |-> "int"]
      [] col_type = "BOOLEAN" -> [base |-> "tinyint", arg |-> 1]
      [] col_type = "DATETIME" -> [base |-> "datetime"]
      [] OTHER -> [base |-> "text"]

\* Mutant of normalize_type: lowercased only, the argument stays.
NormalizeKeepsArgument(raw) == [raw EXCEPT !.base = Lower(raw.base)]

\* normalize_type, generate-schema-updates.py:50-56: lowercased, cut at the
\* first "(" when there is one.
normalize_type(raw) ==
    IF "arg" \in DOMAIN raw \/ "args" \in DOMAIN raw
    THEN [base |-> Lower(raw.base)]
    ELSE IF "rest" \in DOMAIN raw
         THEN [base |-> Lower(raw.base), rest |-> raw.rest]
         ELSE [base |-> Lower(raw.base)]

\* The raw types handed to map_sql_type: every base of the table, an
\* upper-case one, an unmapped one and a text that starts with no word.
RawBases == DOMAIN TYPE_MAP \cup {"VARCHAR", "decimal"}

RawTypes ==
    {[base |-> b] : b \in RawBases \cup {""}}
    \cup {[base |-> b, arg |-> n] : b \in RawBases, n \in 0..MaxLength}
    \cup {[base |-> b, args |-> TRUE] : b \in RawBases}

TypeInit ==
    /\ sql_type \in RawTypes
    /\ result = [type |-> "STRING"]
    /\ mysql_type = [base |-> "text"]
    /\ typePc = "raw"
    /\ SplitIdle /\ DiffIdle /\ MainIdle /\ ParseIdle

\* The forward mapping of a column's type (get-current-schema.py:233).
MapSqlType ==
    /\ typePc = "raw"
    /\ result' = map_sql_type(sql_type)
    /\ typePc' = "mapped"
    /\ UNCHANGED <<sql_type, mysql_type>>
    /\ UNCHANGED <<splitVars, diffVars, mainVars, parseVars>>

\* The differ's reverse mapping of the stored column
\* (generate-schema-updates.py:66-73).
ReverseMap ==
    /\ typePc = "mapped"
    /\ mysql_type' = MysqlType(result)
    /\ typePc' = "reversed"
    /\ UNCHANGED <<sql_type, result>>
    /\ UNCHANGED <<splitVars, diffVars, mainVars, parseVars>>

TypeNext == MapSqlType \/ ReverseMap

SpecType == TypeInit /\ [][TypeNext]_vars

(***************************************************************************)
(* compare_and_generate_sql                                                *)
(* target_json is the dict of the table's JSON file in its iteration       *)
(* order: a sequence of [col, spec] with distinct col, spec a dict.        *)
(* actual_fields is the rows of SHOW FULL COLUMNS: row[0] is Field,        *)
(* row[1] is Type, row[3] is Null.                                         *)
(***************************************************************************)

\* Most columns of a target schema, and most rows of an actual structure.
MaxTargetCols == 2
MaxActualCols == 2

\* Line 62: set(actual_col_map.keys())
ActualCols(fields) == {fields[k].Field : k \in 1..Len(fields)}

\* Line 63: set(target_json.keys())
ExpectedCols(target) == {target[k].col : k \in 1..Len(target)}

\* Line 61: {row[0]: row for row in actual_fields}; of two rows with one
\* name the later one stays.
ActualColMap(fields) ==
    [c \in ActualCols(fields) |->
        fields[CHOOSE k \in 1..Len(fields) :
                  /\ fields[k].Field = c
                  /\ \A j \in (k + 1)..Len(fields) : fields[j].Field # c]]

\* Lines 75-76: the rendered column definition.
ColumnDef(col, spec) ==
    [col |-> col,
     mysql_type |-> MysqlType(spec),
     nullable |-> IF Get(spec, "acceptNULL", TRUE) THEN "NULL" ELSE "NOT NULL"]

\* Mutant of NeedsModify: nullability is not compared.
NeedsModifyTypeOnly(spec, actual) ==
    normalize_type(actual.Type) # normalize_type(MysqlType(spec))

\* Lines 81-88: the column has to be modified.
NeedsModify(spec, actual) ==
    LET actual_type == normalize_type(actual.Type)
        expected_type == normalize_type(MysqlType(spec))
        actual_nullable == (actual.Null = "YES")
        expected_nullable == Get(spec, "acceptNULL", TRUE)
    IN actual_type # expected_type \/ actual_nullable # expected_nullable

\* Lines 65-79: the ADD COLUMN clauses, in the target's iteration order.
AddsOf(target, fields) ==
    LET sel == SelectSeq(target, LAMBDA e : e.col \notin ActualCols(fields))
    IN [k \in 1..Len(sel) |->
           [op |-> "ADD COLUMN", def |-> ColumnDef(sel[k].col, sel[k].spec)]]

\* Lines 65-89: the MODIFY COLUMN clauses, in the target's iteration order.
ModifiesOf(target, fields) ==
    LET sel == SelectSeq(target, LAMBDA e :
                   /\ e.col \in ActualCols(fields)
                   /\ NeedsModify(e.spec, ActualColMap(fields)[e.col]))
    IN [k \in 1..Len(sel) |->
           [op |-> "MODIFY COLUMN", def |-> ColumnDef(sel[k].col, sel[k].spec)]]

\* Mutant of DropCols: the expected columns are not taken out.
DropColsAllActual(target, fields) == ActualCols(fields)

\* Line 91: actual_cols - expected_cols
DropCols(target, fields) == ActualCols(fields) \ ExpectedCols(target)

\* Lines 91-92: the loop runs over a set of str, whose iteration order one
\* run does not share with the next (str hashes are salted per process),
\* so every order of the set is an outcome.
DropsOrders(target, fields) ==
    LET S == DropCols(target, fields)
        n == Cardinality(S)
        orders == {f \in [1..n -> S] : \A a, b \in 1..n : a # b => f[a] # f[b]}
    IN {[k \in 1..n |-> [op |-> "DROP COLUMN", col |-> f[k]]] : f \in orders}

\* The column a clause is about.
ClauseCol(clause) ==
    IF clause.op = "DROP COLUMN" THEN clause.col ELSE clause.def.col

\* The dicts of distinct columns, of at most max columns.
TargetsOf(names, specs, max) ==
    {t \in UNION {[1..n -> [col : names, spec : specs]] : n \in 0..max} :
        \A a, b \in 1..Len(t) : a # b => t[a].col # t[b].col}

\* The row lists of at most max rows.
FieldsOf(rows, max) == UNION {[1..n -> rows] : n \in 0..max}

ColNames == {"a", "b", "c"}

\* Two column specs and two rows per name: they agree or differ in type
\* and in nullability.
SmallSpecs ==
    {[type |-> "STRING", length |-> 1], [type |-> "INTEGER", acceptNULL |-> FALSE]}

SmallRows ==
    {[Field |-> c, Type |-> r.Type, Null |-> r.Null] :
        c \in ColNames,
        r \in {[Type |-> [base |-> "varchar", arg |-> 1], Null |-> "YES"],
               [Type |-> [base |-> "int"], Null |-> "NO"]}}

\* Every shape of a column spec: canonical types, a lower-case one and an
\* unknown one, with and without length and acceptNULL.
SpecTypes == {"STRING", "INTEGER", "BOOLEAN", "DATETIME", "string", "FLOAT"}

AllSpecs ==
    {[type |-> t] @@ l @@ n :
        t \in SpecTypes,
        l \in {<<>>} \cup {[length |-> x] : x \in 0..MaxLength},
        n \in {<<>>} \cup {[acceptNULL |-> x] : x \in BOOLEAN}}

\* The column types of an actual structure.
ActualTypes ==
    LET bases == {"varchar", "VARCHAR", "char", "text", "int", "tinyint", "datetime"}
    IN {[base |-> b] : b \in bases}
       \cup {[base |-> b, arg |-> n] : b \in bases, n \in 0..MaxLength}
       \cup {[base |-> "int", rest |-> "unsigned"],
             [base |-> "int", arg |-> 1, rest |-> "unsigned"],
             [base |-> "decimal", args |-> TRUE]}

AllRows ==
    {[Field |-> c, Type |-> t, Null |-> n] :
        c \in {"a", "b"}, t \in ActualTypes, n \in {"YES", "NO"}}

DiffStart ==
    /\ adds = <<>> /\ modifies = <<>> /\ drops = <<>>
    /\ diffPc = "call"
    /\ SplitIdle /\ TypeIdle /\ MainIdle /\ ParseIdle

\* Tables of several columns, few types.
DiffInit ==
    /\ target_json \in TargetsOf(ColNames, SmallSpecs, MaxTargetCols)
    /\ actual_fields \in FieldsOf(SmallRows, MaxActualCols)
    /\ DiffStart

\* Tables of at most one column, every type: the comparison of a column
\* reads its own spec and its own row only.
DiffTypesInit ==
    /\ target_json \in TargetsOf({"a", "b"}, AllSpecs, 1)
    /\ actual_fields \in FieldsOf(AllRows, 1)
    /\ DiffStart

\* compare_and_generate_sql, lines 58-94.
CompareAndGenerateSql ==
    /\ diffPc = "call"
    /\ adds' = AddsOf(target_json, actual_fields)
    /\ modifies' = ModifiesOf(target_json, actual_fields)
    /\ drops' \in DropsOrders(target_json, actual_fields)
    /\ diffPc' = "returned"
    /\ UNCHANGED <<target_json, actual_fields>>
    /\ UNCHANGED <<splitVars, typeVars, mainVars, parseVars>>

DiffNext == CompareAndGenerateSql

SpecDiff == DiffInit /\ [][DiffNext]_vars

SpecDiffTypes == DiffTypesInit /\ [][DiffNext]_vars

(***************************************************************************)
(* main of generate-schema-updates.py                                      *)
(* database is the target database: a dict from the tables it holds to     *)
(* their rows.  expected_tables is the dict of the dump's JSON files in    *)
(* its iteration order: a sequence of [table, expected].  files maps an    *)
(* output file to its lines.                                               *)
(***************************************************************************)

TableNames == {"t", "u"}

\* The column of the table that line 124 creates.
DummyRows ==
    <<[Field |-> "dummy_column", Type |-> [base |-> "bigint"], Null |-> "NO"]>>

\* Lines 124-127: CREATE TABLE IF NOT EXISTS, committed.
CreateTableIfNotExists(db, table) ==
    IF table \in DOMAIN db THEN db
    ELSE [x \in DOMAIN db \cup {table} |-> IF x = table THEN DummyRows ELSE db[x]]

\* Lines 134-139: one ALTER TABLE line per clause.
AlterLines(table, clauses) ==
    [k \in 1..Len(clauses) |-> [alter |-> table, clause |-> clauses[k]]]

\* The dicts from some of the names to the values.
DictsOf(names, values) == UNION {[d -> values] : d \in SUBSET names}

MainInit ==
    /\ database \in
          DictsOf(TableNames,
                  FieldsOf({r \in SmallRows : r.Field \in {"a", "b"}}, 1))
    /\ expected_tables \in
          {e \in UNION {[1..n -> [table : TableNames,
                                  expected : TargetsOf({"a", "b"}, SmallSpecs, 1)]] :
                           n \in 0..Cardinality(TableNames)} :
              \A a, b \in 1..Len(e) : a # b => e[a].table # e[b].table}
    /\ actual_struct = <<>>
    /\ table_i = 0
    /\ files = <<>>
    /\ mainPc = "start"
    /\ SplitIdle /\ TypeIdle /\ DiffIdle /\ ParseIdle

\* Lines 97-113: connect, fetch_table_structure (lines 41-48) reads every
\* table of the database, load_json_tables reads the dump.
MainFetch ==
    /\ mainPc = "start"
    /\ actual_struct' = database
    /\ table_i' = 0
    /\ mainPc' = "loop"
    /\ UNCHANGED <<database, expected_tables, files>>
    /\ UNCHANGED <<splitVars, typeVars, diffVars, parseVars>>

\* One iteration of the loop over the expected tables, lines 115-141.  The
\* table's .sql file of the dump, opened at line 128, is taken to exist: the
\* extraction writes it together with the table's JSON file.
MainTable ==
    /\ mainPc = "loop"
    /\ table_i < Len(expected_tables)
    /\ LET table == expected_tables[table_i + 1].table
           expected == expected_tables[table_i + 1].expected
           missing == table \notin DOMAIN actual_struct
           actual == Get(actual_struct, table, <<>>)
           comment == IF missing THEN <<[created |-> table]>> ELSE <<>>
       IN /\ database' = IF missing THEN CreateTableIfNotExists(database, table)
                         ELSE database
          /\ \E dropped \in DropsOrders(expected, actual) :
                files' = [x \in DOMAIN files \cup {table} |->
                            IF x = table
                            THEN comment
                                 \o AlterLines(table, AddsOf(expected, actual)
                                                  \o ModifiesOf(expected, actual))
                                 \o AlterLines(table, dropped)
                            ELSE files[x]]
    /\ table_i' = table_i + 1
    /\ UNCHANGED <<actual_struct, expected_tables, mainPc>>
    /\ UNCHANGED <<splitVars, typeVars, diffVars, parseVars>>

\* Lines 143-145: the cursor and the connection are closed.
MainClose ==
    /\ mainPc = "loop"
    /\ table_i >= Len(expected_tables)
    /\ mainPc' = "done"
    /\ UNCHANGED <<database, actual_struct, expected_tables, table_i, files>>
    /\ UNCHANGED <<splitVars, typeVars, diffVars, parseVars>>

MainNext == MainFetch \/ MainTable \/ MainClose

SpecMain == MainInit /\ [][MainNext]_vars

(***************************************************************************)
(* parse_structure                                                         *)
(* sql_text is the statements sqlparse.split returns.  A statement is      *)
(*   table      the name after CREATE TABLE,                               *)
(*   semicolon  the statement ends with ";",                               *)
(*   lines      the lines of its body, each the definitions written on     *)
(*              it; the definitions are separated by commas and a line     *)
(*              break follows a comma.                                     *)
(* A definition is a column [kind, name, type, null], null being           *)
(* "NOT NULL", "NULL" or "", or a key clause [kind, cols] of kind          *)
(* "PRIMARY KEY", "UNIQUE KEY" or "KEY".                                   *)
(***************************************************************************)

KeyKinds == {"PRIMARY KEY", "UNIQUE KEY", "KEY"}

\* Line 203: the pattern asks for ";" after the closing parenthesis.
CreateMatch(stmt) == stmt.semicolon

\* The definitions of the body in order.
RECURSIVE BodyItems(_)
BodyItems(lines) == IF lines = <<>> THEN <<>> ELSE Head(lines) \o BodyItems(Tail(lines))

\* The text of the definition ends with ")".
EndsWithParen(item) ==
    IF item.kind \in KeyKinds THEN TRUE
    ELSE item.null = "" /\ DOMAIN item.type \cap {"arg", "args"} # {}

\* Line 222: the line closes the definition being accumulated.  Line k of
\* the body ends with "," unless it is the last one.
ClosesColumn(lines, k) ==
    LET line == lines[k] IN
    \/ k < Len(lines)
    \/ EndsWithParen(line[Len(line)])
    \/ \E x \in 1..Len(line) : line[x].kind \in KeyKinds

\* Lines 214-224: the accumulated lines; what is left in current when the
\* loop ends is not appended.
RECURSIVE Columns(_, _, _)
Columns(lines, k, current) ==
    IF k > Len(lines) THEN <<>>
    ELSE IF ClosesColumn(lines, k)
         THEN <<current \o lines[k]>> \o Columns(lines, k + 1, <<>>)
         ELSE Columns(lines, k + 1, current \o lines[k])

\* Lines 229-236: the entry of an accumulated line that starts with a
\* column: the pattern takes the name and the type at its start, and rest is
\* everything after them, the definitions that follow on the line included.
ColumnInfo(col_line) ==
    LET first == col_line[1]
        not_null == \E x \in 1..Len(col_line) :
                        /\ col_line[x].kind = "column"
                        /\ col_line[x].null = "NOT NULL"
        info == map_sql_type(first.type) @@ [acceptNULL |-> ~not_null]
    IN IF not_null THEN info @@ [required |-> TRUE] ELSE info

\* Lines 226-237: the column map of the accumulated lines; a later entry of
\* a name replaces an earlier one.
RECURSIVE ColumnMap(_, _)
ColumnMap(columns, map) ==
    IF columns = <<>> THEN map
    ELSE LET col_line == Head(columns) IN
         IF col_line[1].kind \in KeyKinds
         THEN ColumnMap(Tail(columns), map)
         ELSE ColumnMap(Tail(columns),
                        [n \in DOMAIN map \cup {col_line[1].name} |->
                            IF n = col_line[1].name THEN ColumnInfo(col_line)
                            ELSE map[n]])

\* Lines 240-245: the columns named by the PRIMARY KEY clauses of the body.
PrimaryKeys(items) ==
    UNION {{items[k].cols[x] : x \in 1..Len(items[k].cols)} :
              k \in {j \in 1..Len(items) : items[j].kind = "PRIMARY KEY"}}

MarkPrimary(map, keys) ==
    [n \in DOMAIN map |->
        IF n \in keys THEN [f \in DOMAIN map[n] \cup {"primary"} |->
                               IF f = "primary" THEN TRUE ELSE map[n][f]]
        ELSE map[n]]

\* The body of the loop of parse_structure for one statement, lines 203-245.
\* tables is a defaultdict: the entry of the table exists once a column was
\* stored or a PRIMARY KEY clause was looked up.
ParseStatement(tbls, stmt) ==
    IF ~CreateMatch(stmt) THEN tbls
    ELSE LET map == ColumnMap(Columns(stmt.lines, 1, <<>>), Get(tbls, stmt.table, <<>>))
             keys == PrimaryKeys(BodyItems(stmt.lines))
             touched == DOMAIN map # {} \/ keys # {}
         IN IF ~touched THEN tbls
            ELSE [t \in DOMAIN tbls \cup {stmt.table} |->
                     IF t = stmt.table THEN MarkPrimary(map, keys) ELSE tbls[t]]

RECURSIVE ParseAll(_, _)
ParseAll(tbls, stmts) ==
    IF stmts = <<>> THEN tbls
    ELSE ParseAll(ParseStatement(tbls, Head(stmts)), Tail(stmts))

\* The column definitions a body is built from.
ParseNames == {"id", "n"}

ColumnItems ==
    {[kind |-> "column", name |-> c, type |-> t, null |-> n] :
        c \in ParseNames,
        t \in {[base |-> "int"], [base |-> "varchar", arg |-> MaxLength]},
        n \in {"NOT NULL", "NULL", ""}}

PrimaryKeyItems ==
    {[kind |-> "PRIMARY KEY", cols |-> ks] :
        ks \in {<<"id">>, <<"n">>, <<"id", "n">>}}

\* The bodies: one or two columns of distinct names, then a PRIMARY KEY
\* clause or none.
Bodies ==
    LET cols == {cs \in UNION {[1..n -> ColumnItems] : n \in 1..Cardinality(ParseNames)} :
                    \A a, b \in 1..Len(cs) : a # b => cs[a].name # cs[b].name}
    IN cols \cup {cs \o <<pk>> : cs \in cols, pk \in PrimaryKeyItems}

\* The body written on lines: a line break after the definitions of breaks.
RECURSIVE LinesOf(_, _, _, _)
LinesOf(items, breaks, k, line) ==
    IF k > Len(items) THEN <<>>
    ELSE IF k = Len(items) \/ k \in breaks
         THEN <<Append(line, items[k])>> \o LinesOf(items, breaks, k + 1, <<>>)
         ELSE LinesOf(items, breaks, k + 1, Append(line, items[k]))

Statements ==
    {[table |-> "t", semicolon |-> sc, lines |-> LinesOf(b, br, 1, <<>>)] :
        sc \in BOOLEAN,
        b \in Bodies,
        br \in SUBSET (1..Cardinality(ParseNames))}

ParseInit ==
    /\ sql_text \in {<<st>> : st \in Statements}
    /\ tables = <<>>
    /\ sql_files = {}
    /\ parsePc = "call"
    /\ SplitIdle /\ TypeIdle /\ DiffIdle /\ MainIdle

\* parse_structure, lines 198-247: the table's .sql file is written for
\* every statement the pattern matches (lines 210-211).
ParseStructure ==
    /\ parsePc = "call"
    /\ tables' = ParseAll(<<>>, sql_text)
    /\ sql_files' = {sql_text[k].table :
                        k \in {j \in 1..Len(sql_text) : CreateMatch(sql_text[j])}}
    /\ parsePc' = "returned"
    /\ UNCHANGED sql_text
    /\ UNCHANGED <<splitVars, typeVars, diffVars, mainVars>>

ParseNext == ParseStructure

SpecParse == ParseInit /\ [][ParseNext]_vars

Init == SplitInit \/ TypeInit \/ DiffInit \/ DiffTypesInit \/ MainInit \/ ParseInit

Next == SplitNext \/ TypeNext \/ DiffNext \/ MainNext \/ ParseNext

Spec == Init /\ [][Next]_vars

(***************************************************************************)
(* Claims about split_sql_definitions                                      *)
(***************************************************************************)

\* The commas (1-based positions) of b from position k on that are outside
\* every quoted run and at parenthesis depth 0, by the state machine
\* {normal, inSingleQuote, inDoubleQuote} with a depth counter: q is "" in
\* state normal and the opening quote inside a run, d is the depth.
RECURSIVE TopLevelCommas(_, _, _, _)
TopLevelCommas(b, k, q, d) ==
    IF k > Len(b) THEN {}
    ELSE IF q # ""
    THEN IF b[k] # q THEN TopLevelCommas(b, k + 1, q, d)
         ELSE IF k < Len(b) /\ b[k + 1] = q THEN TopLevelCommas(b, k + 2, q, d)
         ELSE TopLevelCommas(b, k + 1, "", d)
    ELSE CASE b[k] \in QuoteChars -> TopLevelCommas(b, k + 1, b[k], d)
           [] b[k] = "(" -> TopLevelCommas(b, k + 1, "", d + 1)
           [] b[k] = ")" -> TopLevelCommas(b, k + 1, "", d - 1)
           [] b[k] = "," /\ d = 0 -> {k} \cup TopLevelCommas(b, k + 1, "", d)
           [] OTHER -> TopLevelCommas(b, k + 1, "", d)

\* b cut at the positions of T, the cut characters removed, in input order.
RECURSIVE CutAt(_, _, _, _)
CutAt(b, T, from, k) ==
    IF k > Len(b) THEN <<SubSeq(b, from, Len(b))>>
    ELSE IF k \in T THEN <<SubSeq(b, from, k - 1)>> \o CutAt(b, T, k + 1, k + 1)
    ELSE CutAt(b, T, from, k + 1)

\* The definitions the contract asks for: the pieces between the top-level
\* commas, trimmed, a blank piece after the last comma discarded.
ExpectedDefinitions(b) ==
    LET pieces == CutAt(b, TopLevelCommas(b, 1, "", 0), 1, 1)
        n == Len(pieces)
        trimmed == [k \in 1..n |-> Strip(pieces[k])]
    IN IF trimmed[n] = <<>> THEN SubSeq(trimmed, 1, n - 1) ELSE trimmed

CountOf(c, s) == Cardinality({k \in 1..Len(s) : s[k] = c})

RECURSIVE Flatten(_)
Flatten(ss) == IF ss = <<>> THEN <<>> ELSE Head(ss) \o Flatten(Tail(ss))

\* C1: split_sql_definitions splits exactly at the commas outside every
\* quoted run and at parenthesis depth 0 and nowhere else: the returned
\* definitions are, in input order, the trimmed pieces between those commas
\* (a blank piece after the last one discarded), every other comma stays
\* inside a definition, and a block with one top-level comma and a
\* definition after it yields exactly two definitions.
C1_SplitsAtTopLevelCommas ==
    splitPc = "done" =>
        LET T == TopLevelCommas(definition_block, 1, "", 0) IN
        /\ parts = ExpectedDefinitions(definition_block)
        /\ CountOf(",", Flatten(parts)) = CountOf(",", definition_block) - Cardinality(T)
        /\ \A k \in T :
              Cardinality(T) = 1
              /\ Strip(SubSeq(definition_block, k + 1, Len(definition_block))) # <<>>
              => Len(parts) = 2

\* C1 witness: a finished split of a block with one top-level comma and a
\* quoted or parenthesised comma before it, returning two definitions.
C1_Witness ==
    /\ splitPc = "done"
    /\ Cardinality(TopLevelCommas(definition_block, 1, "", 0)) = 1
    /\ CountOf(",", definition_block) = 2
    /\ Len(parts) = 2
    /\ CountOf(",", parts[1]) = 1

RemoveBlanks(s) == SelectSeq(s, LAMBDA c : c # " ")

\* The definitions already split off, each followed by the comma that ended it.
RECURSIVE JoinWithCommas(_)
JoinWithCommas(ss) ==
    IF ss = <<>> THEN <<>> ELSE Head(ss) \o <<",">> \o JoinWithCommas(Tail(ss))

\* The character under the cursor ends the quoted run: it is the run's quote
\* character and is not the first of a doubled pair.
EndsQuotedRun ==
    /\ definition_block[i + 1] = quote_char
    /\ ~(i + 2 <= Len(definition_block) /\ definition_block[i + 2] = quote_char)

\* The cursor is on a doubled quote inside a quoted run.
OnDoubledQuote ==
    /\ splitPc = "loop" /\ in_quotes /\ i + 2 <= Len(definition_block)
    /\ definition_block[i + 1] = quote_char
    /\ definition_block[i + 2] = quote_char

\* Inside a quoted run, the run's own quote character, not doubled, ends the
\* run; a step over anything else keeps the run open and leaves depth and
\* definitions alone; a doubled quote is taken whole into the buffer.
C10_StepInsideRun ==
    (splitPc = "loop" /\ in_quotes /\ i < Len(definition_block))
        => IF EndsQuotedRun
           THEN ~in_quotes' /\ definition_block[i + 1] = quote_char
           ELSE /\ in_quotes' /\ quote_char' = quote_char
                /\ parens' = parens /\ parts' = parts
                /\ IF OnDoubledQuote
                   THEN i' = i + 2 /\ buffer' = buffer \o <<quote_char, quote_char>>
                   ELSE i' = i + 1 /\ buffer' = Append(buffer, definition_block[i + 1])

\* Blanks aside, the definitions split off so far, the commas that ended
\* them and the buffer are exactly the input read so far.
C10_NoCharacterLost ==
    /\ splitPc = "loop" =>
          RemoveBlanks(JoinWithCommas(parts) \o buffer)
              = RemoveBlanks(SubSeq(definition_block, 1, i))
    /\ splitPc = "done" =>
          LET split == IF Strip(buffer) # <<>>
                       THEN SubSeq(parts, 1, Len(parts) - 1) ELSE parts
              last == IF Strip(buffer) # <<>> THEN parts[Len(parts)] ELSE <<>>
          IN RemoveBlanks(JoinWithCommas(split) \o last)
                 = RemoveBlanks(definition_block)

\* C10: once a quote character opens a quoted run only the same quote
\* character ends it, a doubled occurrence of it does not: after the doubled
\* quote the splitter is still in the quoted state, commas and parentheses
\* up to the closing quote neither split nor change the depth, and no input
\* character is lost from the returned definitions.
C10_QuotedRunEndsOnlyAtItsQuote ==
    [][C10_StepInsideRun]_vars /\ []C10_NoCharacterLost

\* C10 witness: a comma read inside a quoted run right after a doubled quote
\* of that run, still buffered and not split.
C10_Witness ==
    /\ splitPc = "loop" /\ in_quotes /\ i >= 4
    /\ definition_block[i - 2] = quote_char
    /\ definition_block[i - 1] = quote_char
    /\ definition_block[i] = ","
    /\ parts = <<>>
    /\ buffer = SubSeq(definition_block, 1, i)

(***************************************************************************)
(* Claims about the type mapping                                           *)
(***************************************************************************)

CanonicalTypes == {"STRING", "INTEGER", "BOOLEAN", "DATETIME"}

\* C7 as stated: map_sql_type records a length only when the base mapped
\* to STRING, and the type is one of the four canonical types.
C7_LengthOnlyForString ==
    typePc # "raw" =>
        /\ result.type \in CanonicalTypes
        /\ "length" \in DOMAIN result => result.type = "STRING"

\* C7 amended: map_sql_type records a length exactly when the raw type has
\* the form base(N), N digits, whatever the base maps to, and the length is
\* N; the type is always one of the four canonical types.
C7_LengthWheneverNumericArgument ==
    typePc # "raw" =>
        /\ result.type \in CanonicalTypes
        /\ "length" \in DOMAIN result
              <=> (sql_type.base # "" /\ "arg" \in DOMAIN sql_type)
        /\ "length" \in DOMAIN result => result.length = sql_type.arg

\* C7 witness: an INTEGER result that carries a length.
C7_Witness ==
    /\ typePc = "mapped"
    /\ result.type = "INTEGER"
    /\ "length" \in DOMAIN result

\* The representative raw form of a base of the type table: base(N), N >= 1,
\* for the sized string types, the bare base for the others.
Representative(raw) ==
    /\ raw.base \in DOMAIN TYPE_MAP
    /\ IF raw.base \in {"varchar", "char"}
       THEN DOMAIN raw = {"base", "arg"} /\ raw.arg >= 1
       ELSE DOMAIN raw = {"base"}

\* C8 as stated: for every base of the type table in its representative raw
\* form, the forward then the reverse mapping returns the normalized
\* original.
C8_RoundTripEveryBase ==
    (typePc = "reversed" /\ Representative(sql_type)) =>
        normalize_type(mysql_type) = normalize_type(sql_type)

\* The bases whose representative form survives the round trip.
RoundTripBases == {"varchar", "text", "int", "datetime"}

\* C8 amended: the round trip returns the original exactly for varchar(N),
\* text, int and datetime, and then it returns the raw type itself; for
\* char, bigint, tinyint, timestamp and boolean the mappings are lossy and
\* the round trip returns another base.
C8_RoundTripLossless ==
    (typePc = "reversed" /\ Representative(sql_type)) =>
        /\ normalize_type(mysql_type) = normalize_type(sql_type)
              <=> sql_type.base \in RoundTripBases
        /\ sql_type.base \in RoundTripBases => mysql_type = sql_type

\* C8 witness: varchar(N) has gone forth and back.
C8_Witness ==
    /\ typePc = "reversed"
    /\ sql_type = [base |-> "varchar", arg |-> MaxLength]
    /\ result = [type |-> "STRING", length |-> MaxLength]
    /\ mysql_type = sql_type

(***************************************************************************)
(* Claims about compare_and_generate_sql                                   *)
(***************************************************************************)

\* The number of clauses of a sequence that are about column c.
ClausesAbout(clauses, c) ==
    Cardinality({k \in 1..Len(clauses) : ClauseCol(clauses[k]) = c})

\* C2: columns are classified disjointly and completely: a target column
\* absent from actual is in adds once and in neither modifies nor drops; a
\* target column present in actual is in at most one modifies clause and in
\* neither adds nor drops; an actual column absent from target is in drops
\* once; no column is in more than one of adds, modifies, drops.
C2_DiffClassification ==
    diffPc = "returned" =>
        LET T == {target_json[k].col : k \in 1..Len(target_json)}
            A == {actual_fields[k].Field : k \in 1..Len(actual_fields)}
        IN /\ \A c \in T \ A :
                 /\ ClausesAbout(adds, c) = 1
                 /\ ClausesAbout(modifies, c) = 0
                 /\ ClausesAbout(drops, c) = 0
           /\ \A c \in T \cap A :
                 /\ ClausesAbout(modifies, c) <= 1
                 /\ ClausesAbout(adds, c) = 0
                 /\ ClausesAbout(drops, c) = 0
           /\ \A c \in A \ T :
                 /\ ClausesAbout(drops, c) = 1
                 /\ ClausesAbout(adds, c) = 0
                 /\ ClausesAbout(modifies, c) = 0
           /\ \A k \in 1..Len(adds) : adds[k].op = "ADD COLUMN"
           /\ \A k \in 1..Len(modifies) : modifies[k].op = "MODIFY COLUMN"
           /\ \A k \in 1..Len(drops) : drops[k].op = "DROP COLUMN"
           /\ Len(adds) + Len(modifies) + Len(drops) <= Cardinality(T \cup A)

\* C2 witness: a diff with an add, a modify and a drop.
C2_Witness ==
    /\ diffPc = "returned"
    /\ adds # <<>> /\ modifies # <<>> /\ drops # <<>>

\* The row of column c in the actual structure, as the differ looks it up.
RowOf(c) ==
    actual_fields[CHOOSE k \in 1..Len(actual_fields) :
                     /\ actual_fields[k].Field = c
                     /\ \A j \in (k + 1)..Len(actual_fields) :
                           actual_fields[j].Field # c]

\* The text before "(" of a raw type, lowercased: its normalized base type.
BaseToken(raw) ==
    IF DOMAIN raw \cap {"arg", "args"} = {} /\ "rest" \in DOMAIN raw
    THEN <<Lower(raw.base), raw.rest>>
    ELSE <<Lower(raw.base)>>

\* The normalized base type of the reverse-mapped type of a spec.
ExpectedBaseToken(spec) ==
    LET t == Upper(spec.type) IN
    CASE t = "STRING" /\ "length" \in DOMAIN spec /\ spec.length > 0 -> <<"varchar">>
      [] t = "INTEGER" -> <<"int">>
      [] t = "BOOLEAN" -> <<"tinyint">>
      [] t = "DATETIME" -> <<"datetime">>
      [] OTHER -> <<"text">>

\* Column k of the target differs from its actual row in base type or in
\* nullability, acceptNULL being true when the spec does not hold it.
Differs(k) ==
    LET spec == target_json[k].spec
        row == RowOf(target_json[k].col)
        acceptNULL == IF "acceptNULL" \in DOMAIN spec THEN spec.acceptNULL ELSE TRUE
    IN \/ BaseToken(row.Type) # ExpectedBaseToken(spec)
       \/ (row.Null = "YES") # acceptNULL

\* C3: a target column present in actual gets a MODIFY COLUMN clause if and
\* only if the normalized base types differ or the nullabilities differ;
\* when every target column is present and matches and actual has no other
\* column, adds, modifies and drops are empty.
C3_ModifyIffDiffers ==
    diffPc = "returned" =>
        LET A == {actual_fields[k].Field : k \in 1..Len(actual_fields)}
            T == {target_json[k].col : k \in 1..Len(target_json)}
        IN /\ \A k \in 1..Len(target_json) :
                 target_json[k].col \in A =>
                    (ClausesAbout(modifies, target_json[k].col) = 1 <=> Differs(k))
           /\ \A m \in 1..Len(modifies) :
                 \E k \in 1..Len(target_json) :
                    modifies[m].def = ColumnDef(target_json[k].col, target_json[k].spec)
           /\ (/\ A = T
               /\ \A k \in 1..Len(target_json) : ~Differs(k))
              => adds = <<>> /\ modifies = <<>> /\ drops = <<>>

\* C3 witness: a column modified for its nullability alone.
C3_Witness ==
    /\ diffPc = "returned"
    /\ Len(target_json) = 1 /\ Len(actual_fields) = 1
    /\ target_json[1].col = actual_fields[1].Field
    /\ BaseToken(actual_fields[1].Type) = ExpectedBaseToken(target_json[1].spec)
    /\ modifies # <<>>

\* The target with the length of column k set to len.
WithTargetLength(k, len) ==
    [target_json EXCEPT ![k].spec =
        [f \in (DOMAIN @) \cup {"length"} |-> IF f = "length" THEN len ELSE @[f]]]

\* The target with the length of column k taken out.
WithoutTargetLength(k) ==
    [target_json EXCEPT ![k].spec = [f \in (DOMAIN @) \ {"length"} |-> @[f]]]

\* Column k is a STRING column with a positive length or none, whose row in
\* actual is a varchar(N) of the same nullability: name, canonical type and
\* nullability are equal, the lengths are free.
StringColumnPresent(k) ==
    /\ Upper(target_json[k].spec.type) = "STRING"
    /\ "length" \in DOMAIN target_json[k].spec => target_json[k].spec.length >= 1
    /\ target_json[k].col \in {actual_fields[j].Field : j \in 1..Len(actual_fields)}
    /\ Lower(RowOf(target_json[k].col).Type.base) = "varchar"
    /\ "arg" \in DOMAIN RowOf(target_json[k].col).Type
    /\ map_sql_type(RowOf(target_json[k].col).Type).type = "STRING"
    /\ (RowOf(target_json[k].col).Null = "YES")
          = Get(target_json[k].spec, "acceptNULL", TRUE)

\* C4 as stated: whatever the target's length (absent included) and
\* whatever the length in the actual raw type, with name, canonical type and
\* nullability equal, the column gets no modify entry.
C4_LengthNeverModifies ==
    diffPc = "returned" =>
        \A k \in 1..Len(target_json) :
            (StringColumnPresent(k) /\ RowOf(target_json[k].col).Type.arg >= 1) =>
                /\ ClausesAbout(modifies, target_json[k].col) = 0
                /\ ModifiesOf(WithoutTargetLength(k), actual_fields) = <<>>
                /\ \A len \in 1..MaxLength :
                      ModifiesOf(WithTargetLength(k, len), actual_fields) = <<>>

\* C4 amended: changing only a STRING column's length between present,
\* non-zero values never produces a modify entry: with the actual column a
\* varchar of any length and the nullability equal, modifies is empty for
\* every present non-zero target length.  (A target without length
\* reverse-maps to text and is modified against an actual varchar.)
C4_NonZeroLengthNeverModifies ==
    diffPc = "returned" =>
        \A k \in 1..Len(target_json) :
            (StringColumnPresent(k) /\ HasLength(target_json[k].spec))
            => /\ ClausesAbout(modifies, target_json[k].col) = 0
               /\ \A len \in 1..MaxLength :
                     ModifiesOf(WithTargetLength(k, len), actual_fields) = <<>>
               /\ ModifiesOf(WithoutTargetLength(k), actual_fields) # <<>>

\* C4 witness: the target and the actual varchar lengths differ, and nothing
\* is modified.
C4_Witness ==
    /\ diffPc = "returned"
    /\ Len(target_json) = 1 /\ Len(actual_fields) = 1
    /\ target_json[1].col = actual_fields[1].Field
    /\ StringColumnPresent(1)
    /\ HasLength(target_json[1].spec)
    /\ actual_fields[1].Type.base = "varchar"
    /\ "arg" \in DOMAIN actual_fields[1].Type
    /\ actual_fields[1].Type.arg # target_json[1].spec.length
    /\ modifies = <<>>

\* The actual-only columns in the order of their first row in actual_fields.
RECURSIVE InOrderOfActual(_, _)
InOrderOfActual(fields, seen) ==
    IF fields = <<>> THEN <<>>
    ELSE IF Head(fields).Field \in seen
         THEN InOrderOfActual(Tail(fields), seen)
         ELSE <<Head(fields).Field>>
                  \o InOrderOfActual(Tail(fields), seen \cup {Head(fields).Field})

\* C9: adds and modifies list their columns in the target's iteration order
\* and drops lists the actual-only columns in the order of the actual column
\* list, so the three sequences are determined by the inputs.
C9_OrderDeterminedByInputs ==
    diffPc = "returned" =>
        LET order(clauses) == [k \in 1..Len(clauses) |-> ClauseCol(clauses[k])]
            targetOrder == [k \in 1..Len(target_json) |-> target_json[k].col]
            A == {actual_fields[k].Field : k \in 1..Len(actual_fields)}
            T == {target_json[k].col : k \in 1..Len(target_json)}
        IN /\ order(adds) = SelectSeq(targetOrder, LAMBDA c : c \notin A)
           /\ order(drops) = InOrderOfActual(actual_fields, T)
           /\ \A a, b \in 1..Len(modifies) :
                 a < b =>
                    \E x, y \in 1..Len(target_json) :
                       /\ x < y
                       /\ target_json[x].col = ClauseCol(modifies[a])
                       /\ target_json[y].col = ClauseCol(modifies[b])

(***************************************************************************)
(* Claims about main                                                       *)
(***************************************************************************)

\* C5: a run of main never modifies the target database: the tables and
\* columns of the database after the run are the ones fetched from it at
\* the start of the run, whatever the target tables and the actual
\* structure.
C5_DatabaseUnchanged ==
    mainPc = "done" => database = actual_struct

(***************************************************************************)
(* Claims about parse_structure                                            *)
(***************************************************************************)

\* The entry the claim asks for, for one column definition of a body.
ExpectedEntry(item, keys) ==
    LET base == map_sql_type(item.type) @@ [acceptNULL |-> item.null # "NOT NULL"]
        req == IF item.null = "NOT NULL" THEN base @@ [required |-> TRUE] ELSE base
    IN IF item.name \in keys THEN req @@ [primary |-> TRUE] ELSE req

\* The statement has columns followed by a PRIMARY KEY clause.
HasPrimaryKeyClause(stmt) ==
    LET items == BodyItems(stmt.lines) IN items[Len(items)].kind = "PRIMARY KEY"

\* C6: parsing a CREATE TABLE statement whose body lists column definitions
\* followed by a PRIMARY KEY clause yields a column map with exactly one
\* entry per column definition (forward-mapped type and length, acceptNULL
\* false and required true exactly with NOT NULL), primary true on exactly
\* the columns of the PRIMARY KEY clause and no key clause as an entry,
\* also when the definitions share a line and the statement has no
\* trailing semicolon.
C6_OneEntryPerColumnDefinition ==
    (parsePc = "returned" /\ HasPrimaryKeyClause(sql_text[1])) =>
        LET items == BodyItems(sql_text[1].lines)
            cols == {k \in 1..Len(items) : items[k].kind = "column"}
            keys == PrimaryKeys(items)
        IN /\ sql_text[1].table \in DOMAIN tables
           /\ DOMAIN tables[sql_text[1].table] = {items[k].name : k \in cols}
           /\ \A k \in cols :
                 tables[sql_text[1].table][items[k].name] = ExpectedEntry(items[k], keys)

====
